---- MODULE Spec2Model ----
(***************************************************************************)
(* Model of stan_colab_utils.py: the extension-driven read/save codec      *)
(* dispatch and the cached StanModel builder.                              *)
(*                                                                         *)
(* A path is a tuple of one-character strings.  A file content is a        *)
(* sequence of byte symbols; a symbol records the container layer that     *)
(* produced it (c), its role in the container (part), and the pickle       *)
(* stream position it carries (o, i).                                      *)
(***************************************************************************)
EXTENDS Integers, Sequences, FiniteSets, TLC

(* ---------------------------- bounds ----------------------------------- *)
\* number of distinct model specifications a caller may pass to the builder
NumModels == 2
\* number of concurrent callers in the racing specification
NumCallers == 2
\* an appending save is explored only on files shorter than this
MaxFileLen == 2

(* ---------------------------- paths ------------------------------------ *)
Paths ==
  { <<>>,
    <<"m">>,
    <<"m", ".", "g", "z">>,
    <<"m", ".", "g", "z", "i", "p">>,
    <<"m", ".", "z", "i", "p">>,
    <<"m", ".", "x", "z">>,
    <<"m", ".", "l", "z", "m", "a">>,
    <<"m", ".", "b", "z", "2">>,
    <<"m", ".", "p", "k", "l">>,
    <<"m", ".", "p", "i", "c", "k", "l", "e">>,
    <<"m", ".", "G", "Z">>,
    <<".", "g", "z">>,
    <<"a", ".", "p", "k", "l", "/", "c">>,
    <<"m", ".">>,
    <<"m", ".", "p", "k", "l", ".", "g", "z">> }

\* the cache paths callers of StanModel use: the empty string, a name
\* without extension, one extension per codec, and a hidden file
CachePaths ==
  { <<>>,
    <<"m">>,
    <<"m", ".", "z", "i", "p">>,
    <<"m", ".", "x", "z">>,
    <<"m", ".", "b", "z", "2">>,
    <<"m", ".", "p", "k", "l">>,
    <<".", "g", "z">> }

\* p.rfind(ch), 1-based; 0 when ch does not occur
RFind(p, ch) ==
  LET hits == { k \in 1..Len(p) : p[k] = ch }
  IN IF hits = {} THEN 0 ELSE CHOOSE k \in hits : \A j \in hits : j <= k

\* os.path.splitext(p)[1]: the suffix from the last dot of the last path
\* component, unless that component consists of leading dots up to it
splitext(p) ==
  LET sepIndex == RFind(p, "/")
      dotIndex == RFind(p, ".")
  IN IF dotIndex > sepIndex
        /\ \E k \in (sepIndex + 1)..(dotIndex - 1) : p[k] # "."
     THEN SubSeq(p, dotIndex, Len(p))
     ELSE <<>>

(* ---------------------------- objects ---------------------------------- *)
NoneObj == [t |-> "none", m |-> 0, b |-> <<>>]
\* a compiled model built from model specification m
Art(m) == [t |-> "art", m |-> m, b |-> <<>>]
\* a bytes value
Bytes(b) == [t |-> "bytes", m |-> 0, b |-> b]
\* a str value (text-mode read)
Str(b) == [t |-> "str", m |-> 0, b |-> b]
\* an object whose pickle stream raises TypeError when it is rebuilt
Poison == [t |-> "poison", m |-> 0, b |-> <<>>]

Sym(c, part, o, i) == [c |-> c, part |-> part, o |-> o, i |-> i]
Raw(n) == Sym("io", "d", NoneObj, n)

Ok(v) == [st |-> "ok", val |-> v]
Err(e) == [st |-> e, val |-> NoneObj]

IsOSError(e) == e \in {"FileNotFoundError", "PermissionError", "BadGzipFile", "OSError"}

(* ---------------------------- pickle ----------------------------------- *)
PickleLen(o) == IF o.t = "art" THEN 1 + o.m ELSE 2 + Len(o.b)

\* pickle.dumps(obj)
Dumps(o) == [i \in 1..PickleLen(o) |-> Sym("io", "d", o, i)]

\* pickle.loads(data): the first complete pickle of the stream; what follows
\* its STOP opcode is ignored
Loads(data) ==
  IF data.t # "bytes" THEN Err("TypeError")
  ELSE LET b == data.b IN
    IF Len(b) = 0 THEN Err("EOFError")
    ELSE LET o == b[1].o IN
      IF /\ o # NoneObj
         /\ Len(b) >= PickleLen(o)
         /\ \A j \in 1..PickleLen(o) : b[j] = Sym("io", "d", o, j)
      THEN IF o.t = "poison" THEN Err("TypeError") ELSE Ok(o)
      ELSE Err("UnpicklingError")

(* ---------------------------- codecs ----------------------------------- *)
Codecs == {"io", "gzip", "lzma", "bz2"}

\* what compression.open(path, "wb"/"ab") followed by f.write(b) and close
\* appends to the file
Encode(c, b) ==
  IF c = "io" THEN b
  ELSE <<Sym(c, "hdr", NoneObj, 0)>>
       \o [k \in 1..Len(b) |-> Sym(c, "d", b[k].o, b[k].i)]
       \o <<Sym(c, "end", NoneObj, 0)>>

\* error raised on bytes that are not a stream of the codec
BadData(c) == CASE c = "gzip" -> "BadGzipFile"
                [] c = "lzma" -> "LZMAError"
                [] OTHER -> "OSError"
\* error raised on a damaged stream body
BadBody(c) == CASE c = "gzip" -> "zlib.error"
                [] c = "lzma" -> "LZMAError"
                [] OTHER -> "OSError"

RECURSIVE Members(_, _, _, _, _)
\* decode content s from position k; inside tells whether a member is open,
\* acc is the data decoded so far.  An empty file is an empty result for
\* gzip and a truncated stream for lzma and bz2; bytes after the last member
\* that do not start a member are an error for gzip and ignored otherwise
Members(c, s, k, inside, acc) ==
  IF k > Len(s)
  THEN IF inside THEN Err("EOFError")
       ELSE IF Len(s) = 0 /\ c # "gzip" THEN Err("EOFError")
       ELSE Ok(Bytes(acc))
  ELSE LET x == s[k] IN
    IF ~inside
    THEN IF x.c = c /\ x.part = "hdr"
         THEN Members(c, s, k + 1, TRUE, acc)
         ELSE IF k = 1 \/ c = "gzip" THEN Err(BadData(c))
         ELSE Ok(Bytes(acc))
    ELSE IF x.c = c /\ x.part = "d"
         THEN Members(c, s, k + 1, TRUE, Append(acc, Sym("io", "d", x.o, x.i)))
         ELSE IF x.c = c /\ x.part = "end"
         THEN Members(c, s, k + 1, FALSE, acc)
         ELSE Err(BadBody(c))

\* compression.open(path, mode) followed by f.read()
Decode(c, mode, s) ==
  IF c = "io"
  THEN IF mode = "rb" THEN Ok(Bytes(s)) ELSE Ok(Str(s))
  ELSE Members(c, s, 1, FALSE, <<>>)

(* ---------------------------- files ------------------------------------ *)
\* the state of the file system at one path: existence, content, and whether
\* the process may open it for reading (r) and for writing (w)
Absent == [ex |-> FALSE, bytes |-> <<>>, r |-> FALSE, w |-> FALSE]
File(b, r, w) == [ex |-> TRUE, bytes |-> b, r |-> r, w |-> w]

ReadModes == {"rb", "r"}
SaveModes == {"wb", "ab"}

PlainExts == { <<".", "p", "k", "l">>, <<".", "p", "i", "c", "k", "l", "e">> }

\* ext_dict.get(extension, io) in read
ext_dict_read(ext) ==
  CASE ext = <<".", "g", "z">> -> "gzip"
    [] ext = <<".", "g", "z", "i", "p">> -> "gzip"
    [] ext = <<".", "z", "i", "p">> -> "gzip"
    [] ext = <<".", "x", "z">> -> "lzma"
    [] ext = <<".", "l", "z", "m", "a">> -> "lzma"
    [] ext = <<".", "b", "z", "2">> -> "bz2"
    [] ext = <<".", "p", "k", "l">> -> "io"
    [] ext = <<".", "p", "i", "c", "k", "l", "e">> -> "io"
    [] OTHER -> "io"

\* faulty variant: the ".zip" entry is missing from the table of save
ext_dict_save_NoZip(ext) ==
  CASE ext = <<".", "g", "z">> -> "gzip"
    [] ext = <<".", "g", "z", "i", "p">> -> "gzip"
    [] ext = <<".", "x", "z">> -> "lzma"
    [] ext = <<".", "l", "z", "m", "a">> -> "lzma"
    [] ext = <<".", "b", "z", "2">> -> "bz2"
    [] OTHER -> "io"

\* ext_dict.get(extension, io) in save
ext_dict_save(ext) ==
  CASE ext = <<".", "g", "z">> -> "gzip"
    [] ext = <<".", "g", "z", "i", "p">> -> "gzip"
    [] ext = <<".", "z", "i", "p">> -> "gzip"
    [] ext = <<".", "x", "z">> -> "lzma"
    [] ext = <<".", "l", "z", "m", "a">> -> "lzma"
    [] ext = <<".", "b", "z", "2">> -> "bz2"
    [] ext = <<".", "p", "k", "l">> -> "io"
    [] ext = <<".", "p", "i", "c", "k", "l", "e">> -> "io"
    [] OTHER -> "io"

\* faulty variant: read keeps the caller's pickling flag for .pkl/.pickle
ReadResolve_Unforced(path, mode, pickling) ==
  LET extension == splitext(path)
      forced == extension \in PlainExts
  IN [compression |-> ext_dict_read(extension),
      mode |-> IF forced THEN "rb" ELSE mode,
      pickling |-> pickling]

\* the codec, mode and pickling flag read hands to _read
ReadResolve(path, mode, pickling) ==
  LET extension == splitext(path)
      forced == extension \in PlainExts
  IN [compression |-> ext_dict_read(extension),
      mode |-> IF forced THEN "rb" ELSE mode,
      pickling |-> IF forced THEN TRUE ELSE pickling]

\* the codec, mode and pickling flag save hands to _save
SaveResolve(path, mode, pickling) ==
  LET extension == splitext(path)
      forced == extension \in PlainExts
  IN [compression |-> ext_dict_save(extension),
      mode |-> IF forced THEN "wb" ELSE mode,
      pickling |-> IF forced THEN TRUE ELSE pickling]

\* _read(path, compression, mode, pickling) on the file f found at path
_read(f, compression, mode, pickling) ==
  IF ~f.ex THEN Err("FileNotFoundError")
  ELSE IF ~f.r THEN Err("PermissionError")
  ELSE LET obj == Decode(compression, mode, f.bytes) IN
    IF obj.st # "ok" THEN obj
    ELSE IF pickling THEN Loads(obj.val) ELSE obj

\* read(path, mode, pickling)
read(path, f, mode, pickling) ==
  LET a == ReadResolve(path, mode, pickling)
  IN _read(f, a.compression, a.mode, a.pickling)

\* faulty variant: opening for writing does not truncate
OpenForWrite_NoTrunc(f, mode) ==
  IF f.ex THEN f ELSE File(<<>>, TRUE, TRUE)

\* the file left by compression.open(path, mode) for writing: created or,
\* in mode "wb", truncated
OpenForWrite(f, mode) ==
  IF f.ex THEN File(IF mode = "wb" THEN <<>> ELSE f.bytes, f.r, f.w)
  ELSE File(<<>>, TRUE, TRUE)

\* _save(path, obj, compression, mode, pickling): outcome and file left
_save(path, f, obj, compression, mode, pickling) ==
  LET data == IF pickling THEN Bytes(Dumps(obj)) ELSE obj
      opened == OpenForWrite(f, mode)
  IN IF path = <<>> THEN [st |-> "FileNotFoundError", file |-> f]
     ELSE IF f.ex /\ ~f.w THEN [st |-> "PermissionError", file |-> f]
     ELSE IF data.t # "bytes"
     THEN [st |-> "TypeError",
           file |-> [opened EXCEPT !.bytes =
                       @ \o (IF compression = "io" THEN <<>> ELSE Encode(compression, <<>>))]]
     ELSE [st |-> "ok",
           file |-> [opened EXCEPT !.bytes = @ \o Encode(compression, data.b)]]

\* save(path, obj, mode, pickling)
save(path, f, obj, mode, pickling) ==
  LET a == SaveResolve(path, mode, pickling)
  IN _save(path, f, obj, a.compression, a.mode, a.pickling)

(* ---------------------------- state ------------------------------------ *)
VARIABLES
  cp,               \* the path the behaviour is about
  file,             \* the file system at cp
  pystanInstalled,  \* whether "import pystan" succeeds in this interpreter
  last,             \* what the most recent operation did
  prev,             \* what the operation before it did
  cpath,            \* racing callers: their common cache_path
  cfile,            \* racing callers: the file system at cpath
  cst,              \* racing callers: each caller's position and locals
  overlap,          \* racing callers: two save sections were open at once
  lastWriter        \* racing callers: caller whose save opened the file last

vars == <<cp, file, pystanInstalled, last, prev, cpath, cfile, cst, overlap, lastWriter>>
seqVars == <<cp, file, pystanInstalled, last, prev>>
concVars == <<cpath, cfile, cst, overlap, lastWriter>>

NoEff == [compression |-> "io", mode |-> "", pickling |-> TRUE]

\* what a later operation needs to know of the one before it
Summary(rec) ==
  [op |-> rec.op, none |-> rec.none, mode |-> rec.mode, pickling |-> rec.pickling,
   obj |-> rec.obj, eff |-> rec.eff, existed |-> rec.existed,
   outcome |-> rec.outcome, result |-> rec.result, stuck |-> rec.stuck]

NoOp ==
  [op |-> "none", none |-> TRUE, code |-> 0,
   mode |-> "", pickling |-> TRUE, obj |-> NoneObj, eff |-> NoEff,
   importOk |-> TRUE, installCalls |-> 0, existsCalls |-> 0, readCalls |-> 0,
   buildAttempts |-> 0, builderCalls |-> 0, saveCalls |-> 0,
   probe |-> "", loaded |-> NoneObj, buildSt |-> "", saveSt |-> "",
   outcome |-> "return", raisedAt |-> "", result |-> NoneObj,
   existed |-> FALSE, changed |-> FALSE,
   stuck |-> ""]

(* ---------------------------- StanModel -------------------------------- *)
\* "cache_path is not None" (line 192)
IsProvided(none, path) == ~none
\* "if cache_path:" (line 217)
IsTruthy(none, path) == ~none /\ path # <<>>
\* faulty variant: "except OSError"
ProbeCaught_OSErrorOnly(e) == IsOSError(e)
\* faulty variant: a bare "except"
ProbeCaught_All(e) == TRUE

\* "except (OSError, TypeError)" (line 196)
ProbeCaught(e) == IsOSError(e) \/ e = "TypeError"

\* faulty variant: compile_model is left True after a successful read
ProbeOutcome_NoHit(exists, st) ==
  IF ~exists THEN "miss"
  ELSE IF st = "ok" \/ IsOSError(st) \/ st = "TypeError" THEN "rebuild"
  ELSE "raise"

\* lines 192-199: what the cache probe decides.  "hit" returns the loaded
\* object, "miss" and "rebuild" set compile_model, "raise" lets the error of
\* the read leave StanModel
ProbeOutcome(exists, st) ==
  IF ~exists THEN "miss"
  ELSE IF st = "ok" THEN "hit"
  ELSE IF ProbeCaught(st) THEN "rebuild"
  ELSE "raise"

\* faulty variant: the error of the builder is swallowed before save
SaveReached_AfterError(buildSt, none, path) == buildSt # "" /\ path # <<>> /\ ~none

\* lines 216-218: save is reached when the builder has returned and
\* cache_path is truthy
SaveReached(buildSt, none, path) == buildSt = "ok" /\ IsTruthy(none, path)

\* One call StanModel(model_code=code, cache_path=...), with the outcomes of
\* its collaborators: instOk tells whether pip manages to install pystan,
\* buildOk whether pystan.StanModel compiles the model.
\* stuck is the probe error standing since the file last changed.
\* Yields the record of the call and the file left at cp.
StanModelCall(none, path, f, installed, stuck, code, instOk, buildOk) ==
  LET importOk == installed
      exists == IsProvided(none, path) /\ f.ex
      probe == IF exists THEN read(path, f, "rb", TRUE) ELSE Ok(NoneObj)
      decision == ProbeOutcome(exists, probe.st)
      hit == decision = "hit"
      probeFatal == decision = "raise"
      compile_model == decision \in {"miss", "rebuild"}
      buildSt == IF ~compile_model THEN ""
                 ELSE IF ~importOk THEN "UnboundLocalError"
                 ELSE IF buildOk THEN "ok" ELSE "BuildError"
      built == Art(code)
      doSave == SaveReached(buildSt, none, path)
      sv == IF doSave THEN save(path, f, built, "wb", TRUE)
            ELSE [st |-> "", file |-> f]
      outcome == IF probeFatal THEN probe.st
                 ELSE IF hit THEN "return"
                 ELSE IF buildSt # "ok" THEN buildSt
                 ELSE IF doSave /\ sv.st # "ok" THEN sv.st
                 ELSE "return"
      raisedAt == IF probeFatal THEN "probe"
                  ELSE IF hit THEN ""
                  ELSE IF buildSt # "ok" THEN "build"
                  ELSE IF doSave /\ sv.st # "ok" THEN "save"
                  ELSE ""
  IN [rec |->
        [NoOp EXCEPT
           !.op = "StanModel", !.none = none, !.code = code,
           !.importOk = importOk,
           !.installCalls = IF importOk THEN 0 ELSE 1,
           !.existsCalls = IF IsProvided(none, path) THEN 1 ELSE 0,
           !.readCalls = IF exists THEN 1 ELSE 0,
           !.probe = IF exists THEN probe.st ELSE "",
           !.loaded = IF hit THEN probe.val ELSE NoneObj,
           !.buildAttempts = IF compile_model THEN 1 ELSE 0,
           !.builderCalls = IF compile_model /\ importOk THEN 1 ELSE 0,
           !.buildSt = buildSt,
           !.saveCalls = IF doSave THEN 1 ELSE 0,
           !.saveSt = sv.st,
           !.outcome = outcome, !.raisedAt = raisedAt,
           !.result = IF outcome # "return" THEN NoneObj
                      ELSE IF hit THEN probe.val ELSE built,
           !.existed = f.ex, !.changed = (sv.file # f),
           !.stuck = IF probeFatal THEN probe.st
                     ELSE IF none /\ sv.file = f THEN stuck ELSE ""],
      file |-> sv.file,
      installed |-> installed \/ (~importOk /\ instOk)]

Init ==
  /\ cp \in CachePaths
  /\ file = Absent
  /\ pystanInstalled \in BOOLEAN
  /\ last = NoOp
  /\ prev = Summary(NoOp)
  /\ cpath = <<>>
  /\ cfile = Absent
  /\ cst = <<>>
  /\ overlap = FALSE
  /\ lastWriter = 0

\* a caller runs StanModel, with or without cache_path
StanModel ==
  \E none \in BOOLEAN, code \in 1..NumModels, buildOk \in BOOLEAN,
     instOk \in (IF pystanInstalled THEN {TRUE} ELSE BOOLEAN) :
    LET c == StanModelCall(none, cp, file, pystanInstalled, last.stuck, code, instOk, buildOk)
    IN /\ file' = c.file
       /\ pystanInstalled' = c.installed
       /\ last' = c.rec
       /\ prev' = Summary(last)
       /\ UNCHANGED <<cp>>
       /\ UNCHANGED concVars

(* ---------------------------- direct use of the codec layer ------------ *)
SaveObjs == { Art(m) : m \in 1..NumModels } \cup { Bytes(<<Raw(7)>>), Bytes(<<>>) }

\* a caller runs save(cp, obj, mode, pickling)
SaveOp ==
  \E obj \in SaveObjs, mode \in SaveModes, pickling \in BOOLEAN :
    LET sv == save(cp, file, obj, mode, pickling)
    IN /\ SaveResolve(cp, mode, pickling).mode = "ab" => Len(file.bytes) < MaxFileLen
       /\ file' = sv.file
       /\ last' = [NoOp EXCEPT !.op = "save", !.none = FALSE,
                     !.mode = mode, !.pickling = pickling, !.obj = obj,
                     !.eff = SaveResolve(cp, mode, pickling),
                     !.saveCalls = 1, !.saveSt = sv.st,
                     !.outcome = IF sv.st = "ok" THEN "return" ELSE sv.st,
                     !.raisedAt = IF sv.st = "ok" THEN "" ELSE "save",
                     !.existed = file.ex, !.changed = (sv.file # file)]
       /\ prev' = Summary(last)
       /\ UNCHANGED <<cp, pystanInstalled>>
       /\ UNCHANGED concVars

\* a caller runs read(cp, mode, pickling)
ReadOp ==
  \E mode \in ReadModes, pickling \in BOOLEAN :
    LET rd == read(cp, file, mode, pickling)
    IN /\ last' = [NoOp EXCEPT !.op = "read", !.none = FALSE,
                     !.mode = mode, !.pickling = pickling,
                     !.eff = ReadResolve(cp, mode, pickling),
                     !.readCalls = 1, !.probe = rd.st,
                     !.outcome = IF rd.st = "ok" THEN "return" ELSE rd.st,
                     !.raisedAt = IF rd.st = "ok" THEN "" ELSE "read",
                     !.result = rd.val,
                     !.existed = file.ex]
       /\ prev' = Summary(last)
       /\ UNCHANGED <<cp, file, pystanInstalled>>
       /\ UNCHANGED concVars

(* ---------------------------- the rest of the world -------------------- *)
\* contents another program may have left at the path
SampleContents ==
  { <<>>, <<Raw(9)>> }
  \cup { Encode(d, Dumps(o)) : d \in Codecs, o \in {Art(1), Poison} }
  \cup { SubSeq(Encode(d, Dumps(Art(1))), 1, Len(Encode(d, Dumps(Art(1)))) - 1) :
           d \in {"io", "gzip", "lzma"} }
  \cup { Encode(d, Dumps(Art(1))) \o <<Raw(9)>> : d \in {"io", "gzip", "lzma"} }

\* the same, with files the process may not read or may not write
SampleFiles ==
  { File(b, TRUE, TRUE) : b \in SampleContents }
  \cup { File(Encode(d, Dumps(Art(1))), r, w) :
           d \in {"io", "gzip"}, r \in BOOLEAN, w \in BOOLEAN }

\* something else creates or replaces the file at cp
ExternalPut ==
  \E f \in SampleFiles :
    /\ cp # <<>>
    /\ file' = f
    /\ last' = [NoOp EXCEPT !.op = "put", !.existed = file.ex, !.changed = (f # file)]
    /\ prev' = Summary(last)
    /\ UNCHANGED <<cp, pystanInstalled>>
    /\ UNCHANGED concVars

\* something else removes the file at cp
ExternalRemove ==
  /\ file.ex
  /\ file' = Absent
  /\ last' = [NoOp EXCEPT !.op = "remove", !.existed = TRUE, !.changed = TRUE]
  /\ prev' = Summary(last)
  /\ UNCHANGED <<cp, pystanInstalled>>
  /\ UNCHANGED concVars

\* callers of StanModel, and other programs acting on the cache file
Next == StanModel \/ ExternalPut \/ ExternalRemove

Spec == Init /\ [][Next]_vars

\* callers of save and read, and other programs removing the file
NextCodec == SaveOp \/ ReadOp \/ ExternalRemove

InitCodec ==
  /\ cp \in Paths
  /\ file = Absent
  /\ pystanInstalled = TRUE
  /\ last = NoOp
  /\ prev = Summary(NoOp)
  /\ cpath = <<>>
  /\ cfile = Absent
  /\ cst = <<>>
  /\ overlap = FALSE
  /\ lastWriter = 0

SpecCodec == InitCodec /\ [][NextCodec]_vars

(* ---------------------------- racing callers --------------------------- *)
\* Several callers run StanModel(model_code=code, cache_path=cpath) at once.
\* Each statement that touches the file is a step of its own: the test
\* os.path.exists (line 192), the probe read (line 194), the call of the
\* builder (line 216), and in _save the open for writing (line 45), each
\* flush of written bytes (line 46) and the close that ends the with-block.
Callers == 1..NumCallers

ConcPaths == { <<"m", ".", "p", "k", "l">>, <<"m", ".", "g", "z">> }

\* the bytes save(cpath, Art(code)) writes
Payload(path, code) ==
  LET a == SaveResolve(path, "wb", TRUE)
  IN Encode(a.compression, Dumps(Art(code)))

CallerInit ==
  [pc |-> "exists", code |-> 0, off |-> 0, read |-> FALSE, cleanRead |-> FALSE,
   sawWhole |-> FALSE, outcome |-> ""]

InitConc ==
  /\ cp = <<>>
  /\ file = Absent
  /\ pystanInstalled = TRUE
  /\ last = NoOp
  /\ prev = Summary(NoOp)
  /\ cpath \in ConcPaths
  /\ cfile = Absent
  /\ cst = [i \in Callers |-> CallerInit]
  /\ overlap = FALSE
  /\ lastWriter = 0

Saving(i) == cst[i].pc \in {"write", "close"}

\* b with x stored at position k; a position past the end leaves a hole
WriteAt(b, k, x) ==
  [j \in 1..(IF k > Len(b) THEN k ELSE Len(b)) |->
     IF j = k THEN x ELSE IF j <= Len(b) THEN b[j] ELSE Raw(0)]

\* line 192: cache_path is not None and os.path.exists(cache_path)
ConcExists(i) ==
  /\ cst[i].pc = "exists"
  /\ \E code \in 1..NumModels :
       cst' = [cst EXCEPT ![i].code = code,
                          ![i].pc = IF cfile.ex THEN "read" ELSE "build"]
  /\ UNCHANGED <<cpath, cfile, overlap, lastWriter>>
  /\ UNCHANGED seqVars

\* lines 193-197: the probe read and what becomes of its error
ConcRead(i) ==
  /\ cst[i].pc = "read"
  /\ LET rd == read(cpath, cfile, "rb", TRUE)
         fatal == rd.st # "ok" /\ ~ProbeCaught(rd.st)
     IN cst' = [cst EXCEPT
                  ![i].read = TRUE,
                  ![i].sawWhole = \E code \in 1..NumModels :
                                    cfile.bytes = Payload(cpath, code),
                  ![i].cleanRead = ~overlap /\ \A j \in Callers : ~Saving(j),
                  ![i].pc = IF rd.st = "ok" \/ fatal THEN "done" ELSE "build",
                  ![i].outcome = IF rd.st = "ok" THEN "return"
                                 ELSE IF fatal THEN rd.st ELSE ""]
  /\ UNCHANGED <<cpath, cfile, overlap, lastWriter>>
  /\ UNCHANGED seqVars

\* line 216: the builder returns a model or raises
ConcBuild(i) ==
  /\ cst[i].pc = "build"
  /\ \E buildOk \in BOOLEAN :
       cst' = [cst EXCEPT
                 ![i].pc = IF buildOk THEN "open" ELSE "done",
                 ![i].outcome = IF buildOk THEN "" ELSE "BuildError"]
  /\ UNCHANGED <<cpath, cfile, overlap, lastWriter>>
  /\ UNCHANGED seqVars

\* line 45: compression.open(path, mode="wb") creates or truncates the file
ConcOpen(i) ==
  /\ cst[i].pc = "open"
  /\ cfile' = OpenForWrite(cfile, "wb")
  /\ cst' = [cst EXCEPT ![i].pc = "write", ![i].off = 0]
  /\ overlap' = (overlap \/ \E j \in Callers \ {i} : Saving(j))
  /\ lastWriter' = i
  /\ UNCHANGED <<cpath>>
  /\ UNCHANGED seqVars

\* line 46: the next byte of the payload reaches the file at this caller's
\* own file position
ConcWrite(i) ==
  /\ cst[i].pc = "write"
  /\ LET pl == Payload(cpath, cst[i].code) IN
       /\ cfile' = [cfile EXCEPT !.bytes = WriteAt(@, cst[i].off + 1, pl[cst[i].off + 1])]
       /\ cst' = [cst EXCEPT ![i].off = @ + 1,
                              ![i].pc = IF cst[i].off + 1 < Len(pl) THEN "write" ELSE "close"]
  /\ UNCHANGED <<cpath, overlap, lastWriter>>
  /\ UNCHANGED seqVars

\* end of the with-block in _save, then "return stan_model" (line 220)
ConcClose(i) ==
  /\ cst[i].pc = "close"
  /\ cst' = [cst EXCEPT ![i].pc = "done", ![i].outcome = "return"]
  /\ UNCHANGED <<cpath, cfile, overlap, lastWriter>>
  /\ UNCHANGED seqVars

NextConc ==
  \E i \in Callers :
    \/ ConcExists(i)
    \/ ConcRead(i)
    \/ ConcBuild(i)
    \/ ConcOpen(i)
    \/ ConcWrite(i)
    \/ ConcClose(i)

SpecConc == InitConc /\ [][NextConc]_vars

(* ======================================================================= *)
(* Properties                                                              *)
(* ======================================================================= *)
StanCall == last.op = "StanModel"

\* the extension table as the documentation states it
TableCodec(ext) ==
  IF ext \in { <<".", "g", "z">>, <<".", "g", "z", "i", "p">>, <<".", "z", "i", "p">> }
  THEN "gzip"
  ELSE IF ext \in { <<".", "x", "z">>, <<".", "l", "z", "m", "a">> } THEN "lzma"
  ELSE IF ext = <<".", "b", "z", "2">> THEN "bz2"
  ELSE "io"

TableForced(ext) ==
  ext \in { <<".", "p", "k", "l">>, <<".", "p", "i", "c", "k", "l", "e">> }

\* the bytes a cache file holding object o has at cp
CacheBytes(o) == Encode(TableCodec(splitext(cp)), Dumps(o))

\* C1: a StanModel call whose cache file exists and reads back successfully
\* never reaches the builder or save, and returns exactly the object stored
\* in the file, whatever model the caller asked for.
C1_CacheHit ==
  (StanCall /\ last.readCalls = 1 /\ last.probe = "ok")
    => /\ last.buildAttempts = 0
       /\ last.builderCalls = 0
       /\ last.saveCalls = 0
       /\ ~last.changed
       /\ last.outcome = "return"
       /\ last.result = last.loaded
       /\ read(cp, file, "rb", TRUE) = Ok(last.result)

\* a hit that returns a model other than the one the caller specified
C1_Witness ==
  /\ StanCall /\ last.readCalls = 1 /\ last.probe = "ok"
  /\ last.result = Art(1) /\ last.code = 2
  /\ prev.op = "put"

\* C2: a StanModel call with a provided cache_path at which no file exists
\* builds once, returns the built model and leaves a file that reads back
\* as that model; the call that follows with the same cache_path is a hit
\* returning that model without building.
C2_MissThenHit ==
  /\ (StanCall /\ ~last.none /\ ~last.existed /\ last.outcome = "return")
       => /\ last.builderCalls = 1
          /\ last.result = Art(last.code)
          /\ file.ex
          /\ read(cp, file, "rb", TRUE) = Ok(last.result)
  /\ (/\ prev.op = "StanModel" /\ ~prev.none /\ ~prev.existed
      /\ prev.outcome = "return"
      /\ StanCall /\ ~last.none)
       => /\ last.builderCalls = 0
          /\ last.outcome = "return"
          /\ last.result = prev.result

C4_PersistIffProvided ==
  StanCall
    => /\ last.buildSt = "ok" => (last.saveCalls = 1 <=> ~last.none)
       /\ last.none => /\ last.existsCalls = 0
                       /\ last.readCalls = 0
                       /\ last.saveCalls = 0
                       /\ ~last.changed
                       /\ last.buildAttempts = 1

\* C7: when the builder raises, that error leaves StanModel, save is not
\* called and the file at cache_path is what it was before the call; save
\* runs only after the builder has returned.
C7_BuildErrorNotCached ==
  StanCall
    => /\ last.buildSt \notin {"", "ok"}
            => /\ last.outcome = last.buildSt
               /\ last.raisedAt = "build"
               /\ last.saveCalls = 0
               /\ ~last.changed
               /\ file.ex = last.existed
       /\ last.saveCalls > 0 => (last.saveCalls = 1 /\ last.buildSt = "ok")

\* a failed rebuild over an unreadable cache file, which stays in place
C7_Witness ==
  /\ StanCall /\ last.buildSt = "BuildError" /\ last.outcome = "BuildError"
  /\ last.existed /\ IsOSError(last.probe) /\ file.ex /\ ~last.none

\* C8: when the cache file exists and the probe read raises an error that
\* is neither an OSError nor a TypeError, that error leaves StanModel, the
\* builder is not invoked and the file is untouched; every later StanModel
\* call with that cache_path fails the same way for as long as nothing
\* else replaces the file.
C8_StickyProbeError ==
  /\ (StanCall /\ last.readCalls = 1 /\ last.probe # "ok"
        /\ ~IsOSError(last.probe) /\ last.probe # "TypeError")
       => /\ last.outcome = last.probe
          /\ last.raisedAt = "probe"
          /\ last.buildAttempts = 0
          /\ last.builderCalls = 0
          /\ last.saveCalls = 0
          /\ ~last.changed
          /\ file.ex
  /\ (prev.stuck # "" /\ StanCall)
       => /\ ~last.changed
          /\ last.stuck = prev.stuck
          /\ ~last.none => (last.raisedAt = "probe" /\ last.outcome = prev.stuck)

\* the same unpickling error twice in a row
C8_Witness ==
  /\ StanCall /\ ~last.none /\ last.raisedAt = "probe"
  /\ last.outcome \in {"UnpicklingError", "EOFError", "LZMAError"}
  /\ prev.op = "StanModel" /\ prev.stuck = last.outcome

\* C9: the installer runs only when pystan cannot be imported, at most once
\* per call; when the installation made pystan available, a call that has
\* to compile invokes the builder, and the builder invocation fails for
\* want of pystan only when pystan is still absent.
C9_InstallThenBuild ==
  StanCall
    => /\ last.installCalls = (IF last.importOk THEN 0 ELSE 1)
       /\ (last.buildAttempts = 1 /\ pystanInstalled)
            => (last.builderCalls = 1 /\ last.buildSt \in {"ok", "BuildError"})

\* C5: save(path, obj) followed by read(path) with the same pickling flag
\* and the default modes returns a value equal to obj, for every extension
\* of the table and for unmapped ones; both calls resolved the same codec
\* and the same effective serialization.
C5_RoundTrip ==
  (/\ prev.op = "save" /\ prev.outcome = "return"
   /\ last.op = "read" /\ last.pickling = prev.pickling
   /\ (TableForced(splitext(cp)) \/ (prev.mode = "wb" /\ last.mode = "rb")))
    => /\ last.outcome = "return"
       /\ last.result = prev.obj
       /\ last.eff.compression = prev.eff.compression
       /\ last.eff.pickling = prev.eff.pickling

\* a compiled model came back through the lzma codec
C5_Witness ==
  /\ prev.op = "save" /\ prev.outcome = "return" /\ prev.obj = Art(2)
  /\ prev.mode = "wb" /\ prev.pickling
  /\ last.op = "read" /\ last.mode = "rb" /\ last.pickling
  /\ last.eff.compression = "lzma"
  /\ last.result = Art(2)

\* the codec, mode and serialization the table prescribes for a call
TableResolve(op, path, mode, pickling) ==
  LET ext == splitext(path)
  IN [compression |-> TableCodec(ext),
      mode |-> IF TableForced(ext)
               THEN (IF op = "read" THEN "rb" ELSE "wb")
               ELSE mode,
      pickling |-> IF TableForced(ext) THEN TRUE ELSE pickling]

\* C6: read and save resolve the codec by the fixed extension table for
\* every path, mode and pickling argument: .gz/.gzip/.zip gzip, .xz/.lzma
\* lzma, .bz2 bzip2, with serialization as passed; .pkl/.pickle raw bytes
\* with serialization and binary mode forced; anything else raw bytes with
\* serialization as passed.  A save in mode "wb" leaves exactly the bytes
\* that codec and serialization produce.
C6_CodecTable ==
  last.op \in {"read", "save"}
    => /\ last.eff = TableResolve(last.op, cp, last.mode, last.pickling)
       /\ (last.op = "save" /\ last.outcome = "return" /\ last.eff.mode = "wb")
            => file.bytes = Encode(TableCodec(splitext(cp)),
                                   IF last.eff.pickling THEN Dumps(last.obj)
                                   ELSE last.obj.b)

\* a .pkl/.pickle save asked not to serialize and to append did both anyway
C6_Witness ==
  /\ last.op = "save" /\ TableForced(splitext(cp))
  /\ ~last.pickling /\ last.mode = "ab"
  /\ last.eff.pickling /\ last.eff.mode = "wb" /\ last.eff.compression = "io"
  /\ last.outcome = "return" /\ last.existed
  /\ file.bytes = Dumps(last.obj)

AllDone == cst # <<>> /\ \A i \in Callers : cst[i].pc = "done"

\* the complete payloads the callers may have written
WholePayloads == { Payload(cpath, cst[i].code) : i \in Callers }

\* C10 as stated: whatever the interleaving, once all callers have finished
\* the file holds the complete payload of one of them, and no probe read
\* sees anything but a complete payload.
C10_NoCorruption ==
  cst # <<>>
    => /\ (AllDone /\ lastWriter # 0) => cfile.bytes \in WholePayloads
       /\ \A i \in Callers : cst[i].read => cst[i].sawWhole

\* C10 amended: when no two save sections (open for writing through close)
\* were open at the same time, the file, once all callers have finished,
\* holds exactly the complete payload of the caller that opened it last,
\* and a probe read made while no save section is open sees a complete
\* payload.
C10_LastWriterWins ==
  cst # <<>>
    => /\ (AllDone /\ lastWriter # 0 /\ ~overlap)
            => cfile.bytes = Payload(cpath, cst[lastWriter].code)
       /\ \A i \in Callers :
            (cst[i].read /\ cst[i].cleanRead)
              => /\ cst[i].sawWhole
                 /\ cst[i].outcome = "return"

\* two callers both missed, both built different models, and saved one
\* after the other, the shorter payload last
C10_Witness ==
  /\ AllDone /\ ~overlap /\ lastWriter # 0
  /\ \A i \in Callers : ~cst[i].read /\ cst[i].outcome = "return"
  /\ \E i \in Callers : cst[i].code > cst[lastWriter].code
  /\ cfile.bytes = Payload(cpath, cst[lastWriter].code)

====
